---- MODULE Spec2Model ----
(***************************************************************************)
(* kmsgrab: KMS/DRM screenshot tool (src/kmsgrab.c).                       *)
(*                                                                         *)
(* main() locates a DRM device, finds a CRTC with a bound framebuffer,     *)
(* exports the framebuffer as a prime descriptor and calls save_png(),     *)
(* which maps the buffer, converts it to RGB888 and writes it with libpng. *)
(* The model follows the C control flow statement by statement; every      *)
(* label of the goto cleanup chains is a value of pc.                      *)
(***************************************************************************)
EXTENDS Integers, Sequences, FiniteSets, TLC

(***************************************************************************)
(* Bounds of the model.                                                    *)
(***************************************************************************)
MaxCards == 2      \* device nodes /dev/dri/card<n> that open
MaxCrtcs == 2      \* res->count_crtcs
MaxDim   == 2      \* fb->width, fb->height

(***************************************************************************)
(* Program constants.                                                      *)
(***************************************************************************)
EXIT_SUCCESS == 0
EXIT_FAILURE == 1
ENOMEM == 12
EACCES == 13
Unassigned == -1                \* an automatic variable never written
Uninit == -1                    \* a byte of malloc'ed memory never written

U8(x) == x % 256                \* store an int into a uint8_t

(***************************************************************************)
(* Bit operations of C on non-negative integers (uint16_t promoted to int).*)
(***************************************************************************)
RECURSIVE BitAnd(_, _)
BitAnd(a, b) ==
    IF a = 0 \/ b = 0 THEN 0
    ELSE (a % 2) * (b % 2) + 2 * BitAnd(a \div 2, b \div 2)

Shl(x, n) == x * (2 ^ n)
Shr(x, n) == x \div (2 ^ n)

(***************************************************************************)
(* uint32_t / unsigned int.  A 32-bit word is kept as two 16-bit halves,   *)
(* value = hi * 2^16 + lo, so that all 32 bits are represented.            *)
(***************************************************************************)
Half == 65536
W32(h, l) == [hi |-> h, lo |-> l]
ToWord(x) == W32((x \div Half) % Half, x % Half)
WordInt(w) == w.hi * Half + w.lo          \* defined for words below 2^31
AndW(w, m) == W32(BitAnd(w.hi, m.hi), BitAnd(w.lo, m.lo))
ShrW(w, n) ==
    IF n >= 16 THEN W32(0, Shr(w.hi, n - 16))
    ELSE W32(Shr(w.hi, n), Shr(w.lo, n) + (w.hi % (2 ^ n)) * (2 ^ (16 - n)))
U8W(w) == w.lo % 256            \* store a uint32_t into a uint8_t
ByteOf(w, k) == IF k < 2 THEN (w.lo \div (256 ^ k)) % 256
                ELSE (w.hi \div (256 ^ (k - 2))) % 256
\* Product modulo 2^32, by bytes.
MulW(x, y) ==
    LET c(k) == LET S == {j \in 0..3 : j <= k}
                    RECURSIVE Sum(_)
                    Sum(T) == IF T = {} THEN 0
                              ELSE LET j == CHOOSE e \in T : TRUE
                                   IN  ByteOf(x, j) * ByteOf(y, k - j)
                                       + Sum(T \ {j})
                IN  Sum(S)
        t0 == c(0)
        t1 == c(1) + (t0 \div 256)
        t2 == c(2) + (t1 \div 256)
        t3 == c(3) + (t2 \div 256)
    IN  W32((t3 % 256) * 256 + (t2 % 256), (t1 % 256) * 256 + (t0 % 256))
(***************************************************************************)
(* rgb16_to_24, rgb32_to_24: the two pixel decoders.  The result is the    *)
(* struct uint24_t {r, g, b}, each member a uint8_t.                       *)
(***************************************************************************)
rgb16_to_24_swapped(px) ==
    [r |-> U8(Shl(BitAnd(px, \h1F), 3)),
     g |-> U8(Shr(BitAnd(px, \h7E0), 3)),
     b |-> U8(Shr(BitAnd(px, \hF800), 8))]

rgb16_to_24(px) ==
    [r |-> U8(Shr(BitAnd(px, \hF800), 8)),
     g |-> U8(Shr(BitAnd(px, \h7E0), 3)),
     b |-> U8(Shl(BitAnd(px, \h1F), 3))]

rgb32_to_24_argb(px) ==
    [r |-> U8W(AndW(ShrW(px, 24), W32(0, \hFF))),
     g |-> U8W(AndW(ShrW(px, 16), W32(0, \hFF))),
     b |-> U8W(AndW(ShrW(px, 8), W32(0, \hFF)))]

rgb32_to_24(px) ==
    [r |-> U8W(AndW(ShrW(px, 16), W32(0, \hFF))),
     g |-> U8W(AndW(ShrW(px, 8), W32(0, \hFF))),
     b |-> U8W(AndW(px, W32(0, \hFF)))]

(***************************************************************************)
(* convert_to_24(fb, to, from): len = fb->width * fb->height pixels are    *)
(* read from `from` (as uint16_t when bpp == 16, as uint32_t otherwise)    *)
(* and stored as consecutive 3-byte structs {r, g, b} at the start of `to`.*)
(* `from` is the sequence of pixels the loop reads, `to` a byte sequence.  *)
(***************************************************************************)
ConvLenW(f) == MulW(ToWord(f.width), ToWord(f.height))
ConvLen(f) == WordInt(ConvLenW(f))

DecodePixel(f, px) == IF f.bpp = 16 THEN rgb16_to_24(px) ELSE rgb32_to_24(px)

Channel(p, c) == CASE c = 0 -> p.r [] c = 1 -> p.g [] c = 2 -> p.b

convert_to_24_short(f, to, from) ==
    [j \in 1..Len(to) |->
        IF j <= 3 * (ConvLen(f) - 1)
        THEN Channel(DecodePixel(f, from[((j - 1) \div 3) + 1]), (j - 1) % 3)
        ELSE to[j]]

convert_to_24(f, to, from) ==
    [j \in 1..Len(to) |->
        IF j <= 3 * ConvLen(f)
        THEN Channel(DecodePixel(f, from[((j - 1) \div 3) + 1]), (j - 1) % 3)
        ELSE to[j]]

\* Which decoder the branch at kmsgrab.c:55 selects, and the bytes it reads.
DecoderFor(f) == IF f.bpp = 16 THEN "rgb16_to_24" ELSE "rgb32_to_24"
BytesRead(f)  == (IF f.bpp = 16 THEN 2 ELSE 4) * ConvLen(f)

\* The sizes save_png computes in unsigned int arithmetic.
PictureSizeW(f) == MulW(MulW(ToWord(f.width), ToWord(f.height)), ToWord(4))
PictureSize(f)  == WordInt(PictureSizeW(f))
MapLengthW(f)   ==
    MulW(MulW(ToWord(Shr(f.bpp, 3)), ToWord(f.width)), ToWord(f.height))
MapLength(f)    == WordInt(MapLengthW(f))
RowOffset_stride4(f, k) == WordInt(MulW(MulW(ToWord(k), ToWord(f.width)), ToWord(4)))
RowOffsetW(f, k) == MulW(MulW(ToWord(k), ToWord(f.width)), ToWord(3))
RowOffset(f, k) == WordInt(RowOffsetW(f, k))

\* Byte counts that are not reduced modulo 2^32: hi may exceed 16 bits.
Times3(w) == [hi |-> 3 * w.hi + (3 * w.lo) \div Half, lo |-> (3 * w.lo) % Half]
Plus(a, b) == [hi |-> a.hi + b.hi + (a.lo + b.lo) \div Half,
               lo |-> (a.lo + b.lo) % Half]
Leq(a, b) == a.hi < b.hi \/ (a.hi = b.hi /\ a.lo <= b.lo)
\* What convert_to_24 writes: sizeof(uint24_t) for each of its len pixels.
BytesWritten(f) == Times3(ConvLenW(f))
\* Where the bytes of row k end: picture + k * width * 3, then width * 3.
RowEnd(f, k) == Plus(RowOffsetW(f, k), Times3(ToWord(f.width)))

(***************************************************************************)
(* The environment: what the kernel, libc and libpng can answer.           *)
(***************************************************************************)
RUID == 1000                       \* getuid(): the invoking user
ROOT == 0                          \* effective uid of a setuid-root binary
CrtcGone  == -2                    \* drmModeGetCrtc() returns NULL
FbIdBase  == 40                    \* CRTC i, when bound, scans out buffer 40 + i
BppVals   == {16, 24, 32}
Errnos    == {EACCES}
Patterns  == {0, 1}

Samples16 == <<\hFFFF, \hF800, \h07E0, \h001F>>
Samples32 == <<W32(\h0000, \h00FF), W32(\h0000, \hFF00), W32(\h00FF, \h0000),
               W32(\h00FF, \hFFFF), W32(\hFF11, \h2233)>>

\* The pixels of a framebuffer: a rotation of the sample list.
SourcePixels(w, h, bpp, pat) ==
    LET S == IF bpp = 16 THEN Samples16 ELSE Samples32
    IN  [k \in 1..(w * h) |-> S[((k - 1 + pat) % Len(S)) + 1]]

NoFb == [ok |-> FALSE, width |-> 0, height |-> 0, bpp |-> 0, handle |-> 0]
NoPixel == [r |-> Uninit, g |-> Uninit, b |-> Uninit]
NoSizes == [alloc |-> Uninit, len |-> Uninit, row |-> Uninit, offset |-> Uninit]
NoSink == [ihdr |-> <<>>, rows |-> <<>>, ended |-> FALSE]
Resources == {"res", "fb", "prime_fd", "mapping", "picture", "pngfile",
              "row_pointers"}

VARIABLES
    pc,         \* position in main()/save_png()
    argc,       \* number of command-line words
    cards,      \* what the scan found at /dev/dri/card0, card1, ...
    card,       \* main: card
    fds,        \* every descriptor open() returned: [card, open]
    drm_fd,     \* main: drm_fd, an index into fds (0: none)
    caps,       \* client capabilities enabled on drm_fd
    errno,
    count_crtcs,\* res->count_crtcs
    crtcs,      \* what drmModeGetCrtc answered so far: buffer_id or CrtcGone
    i,          \* main: i
    fb_id,      \* main: fb_id
    queried,    \* indices of the CRTCs passed to drmModeGetCrtc
    fb,         \* main: fb (drmModeFB)
    src,        \* the pixels behind the prime buffer
    acq, rel,   \* per resource: times acquired, times released
    picture,    \* save_png: picture
    decoder,    \* which decoder convert_to_24 ran
    row_pointers,
    sink,       \* what libpng was given: IHDR, rows, end
    file,       \* the file at the output path: untouched, empty, header, complete
    euid,       \* effective uid of the process
    openEuid,   \* effective uid at the fopen() of the output path
    ret, err, retval,
    diag,       \* messages printed
    px, pixel,  \* input and result of one decoder call
    sizes       \* the sizes and offsets computed for one framebuffer

vars == <<pc, argc, cards, card, fds, drm_fd, caps, errno, count_crtcs, crtcs, i, fb_id, queried,
          fb, src, acq, rel, picture, decoder, row_pointers, sink, file, euid,
          openEuid, ret, err, retval, diag, px, pixel, sizes>>

envVars  == <<argc, cards>>
scanVars == <<card, fds, drm_fd, caps>>
crtcVars == <<count_crtcs, crtcs, i, fb_id, queried>>
pngVars  == <<picture, decoder, row_pointers, sink, file, openEuid>>
pxVars   == <<px, pixel, sizes>>

Acquire(r) == acq' = [acq EXCEPT ![r] = @ + 1]
Release(r) == rel' = [rel EXCEPT ![r] = @ + 1]
Say(msg)   == diag' = Append(diag, msg)

ProgramStart ==
    /\ card = 0 /\ fds = <<>> /\ drm_fd = 0 /\ caps = {}
    /\ errno = 0
    /\ count_crtcs = 0 /\ crtcs = <<>> /\ i = 0 /\ fb_id = Unassigned /\ queried = <<>>
    /\ src = <<>>
    /\ acq = [r \in Resources |-> 0] /\ rel = [r \in Resources |-> 0]
    /\ picture = <<>> /\ decoder = "none" /\ row_pointers = <<>>
    /\ sink = NoSink
    /\ openEuid = Unassigned
    /\ ret = 0 /\ err = 0 /\ retval = EXIT_FAILURE
    /\ diag = <<>>

Init ==
    /\ pc = "main"
    /\ argc \in {1, 2}
    /\ cards = <<>>
    /\ file = "untouched"
    /\ euid \in {ROOT, RUID}
    /\ ProgramStart
    /\ fb = NoFb
    /\ px = 0 /\ pixel = NoPixel /\ sizes = NoSizes

(***************************************************************************)
(* main(): argument check and device scan (kmsgrab.c:161-186).             *)
(***************************************************************************)
Usage ==
    /\ pc = "main"
    /\ IF argc < 2
       THEN /\ Say("Usage: kmsgrab <output.png>")
            /\ pc' = "out_return"
       ELSE /\ pc' = "scan"
            /\ UNCHANGED diag
    /\ UNCHANGED <<envVars, scanVars, errno, crtcVars, fb, src, acq, rel,
                   pngVars, euid, ret, err, retval, pxVars>>

\* One iteration of for (card = 0; ; card++): the node card<card> does not
\* open, or opens and has dumb buffers, or opens and is closed again.
ScanCard_pastFailure ==
    /\ pc = "scan"
    /\ \/ /\ cards' = Append(cards, "absent")    \* open() fails, scan goes on
          /\ errno' \in Errnos
          /\ Say("Could not open KMS/DRM device.")
          /\ IF card < MaxCards
             THEN card' = card + 1 /\ UNCHANGED pc
             ELSE pc' = "out_return" /\ UNCHANGED card
          /\ UNCHANGED <<fds, drm_fd>>
       \/ /\ card < MaxCards
          /\ cards' = Append(cards, "capable")
          /\ fds' = Append(fds, [card |-> card, open |-> TRUE])
          /\ drm_fd' = Len(fds) + 1
          /\ pc' = "reopen"
          /\ UNCHANGED <<card, errno, diag>>
       \/ /\ card < MaxCards
          /\ cards' = Append(cards, "incapable")
          /\ fds' = Append(fds, [card |-> card, open |-> FALSE])
          /\ drm_fd' = Len(fds) + 1
          /\ card' = card + 1
          /\ UNCHANGED <<pc, errno, diag>>
    /\ UNCHANGED <<argc, caps, crtcVars, fb, src, acq, rel, pngVars, euid,
                   ret, err, retval, pxVars>>

ScanCard ==
    /\ pc = "scan"
    /\ \/ /\ cards' = Append(cards, "absent")    \* open() fails
          /\ errno' \in Errnos
          /\ Say("Could not open KMS/DRM device.")
          /\ pc' = "out_return"
          /\ UNCHANGED <<card, fds, drm_fd>>
       \/ /\ card < MaxCards
          /\ cards' = Append(cards, "capable")   \* drmGetCap ok, has_dumb
          /\ fds' = Append(fds, [card |-> card, open |-> TRUE])
          /\ drm_fd' = Len(fds) + 1
          /\ pc' = "reopen"                      \* break
          /\ UNCHANGED <<card, errno, diag>>
       \/ /\ card < MaxCards
          /\ cards' = Append(cards, "incapable")
          /\ fds' = Append(fds, [card |-> card, open |-> FALSE])   \* close
          /\ drm_fd' = Len(fds) + 1
          /\ card' = card + 1
          /\ UNCHANGED <<pc, errno, diag>>
    /\ UNCHANGED <<argc, caps, crtcVars, fb, src, acq, rel, pngVars, euid,
                   ret, err, retval, pxVars>>

\* drm_fd = open(buf, ...) once more, after the loop.
Reopen_nextCard ==
    /\ pc = "reopen"
    /\ \/ /\ fds' = Append(fds, [card |-> card + 1, open |-> TRUE])
          /\ drm_fd' = Len(fds) + 1
          /\ pc' = "set_atomic"
          /\ UNCHANGED <<errno, diag>>
       \/ /\ errno' \in Errnos
          /\ drm_fd' = 0
          /\ Say("Could not open KMS/DRM device.")
          /\ pc' = "out_return"
          /\ UNCHANGED fds
    /\ UNCHANGED <<envVars, card, caps, crtcVars, fb, src, acq, rel, pngVars,
                   euid, ret, err, retval, pxVars>>

Reopen ==
    /\ pc = "reopen"
    /\ \/ /\ fds' = Append(fds, [card |-> card, open |-> TRUE])
          /\ drm_fd' = Len(fds) + 1
          /\ pc' = "set_atomic"
          /\ UNCHANGED <<errno, diag>>
       \/ /\ errno' \in Errnos
          /\ drm_fd' = 0                         \* -1
          /\ Say("Could not open KMS/DRM device.")
          /\ pc' = "out_return"
          /\ UNCHANGED fds
    /\ UNCHANGED <<envVars, card, caps, crtcVars, fb, src, acq, rel, pngVars,
                   euid, ret, err, retval, pxVars>>

(***************************************************************************)
(* main(): output discovery (kmsgrab.c:188-223).                           *)
(***************************************************************************)
AtomicMsg == "Unable to set atomic cap."
PlanesMsg == "Unable to set universal planes cap."
BothCaps  == {"DRM_CLIENT_CAP_ATOMIC", "DRM_CLIENT_CAP_UNIVERSAL_PLANES"}

\* if (drmSetClientCap(drm_fd, cap, 1)) { fprintf(...); goto out_close_fd; }
SetClientCap_unchecked(here, next, cap, msg) ==
    /\ pc = here
    /\ \/ /\ caps' = caps \cup {cap}
          /\ UNCHANGED errno
       \/ /\ errno' \in Errnos
          /\ UNCHANGED caps
    /\ pc' = next
    /\ UNCHANGED <<envVars, card, fds, drm_fd, diag, crtcVars, fb, src, acq,
                   rel, pngVars, euid, ret, err, retval, pxVars>>

SetClientCap(here, next, cap, msg) ==
    /\ pc = here
    /\ \/ /\ caps' = caps \cup {cap}
          /\ pc' = next
          /\ UNCHANGED <<errno, diag>>
       \/ /\ errno' \in Errnos
          /\ Say(msg)
          /\ pc' = "out_close_fd"
          /\ UNCHANGED caps
    /\ UNCHANGED <<envVars, card, fds, drm_fd, crtcVars, fb, src, acq, rel,
                   pngVars, euid, ret, err, retval, pxVars>>

SetAtomicCap ==
    SetClientCap("set_atomic", "set_planes", "DRM_CLIENT_CAP_ATOMIC",
                 AtomicMsg)

SetUniversalPlanesCap ==
    SetClientCap("set_planes", "get_resources",
                 "DRM_CLIENT_CAP_UNIVERSAL_PLANES", PlanesMsg)

GetResources ==
    /\ pc = "get_resources"
    /\ \/ /\ count_crtcs' \in 0..MaxCrtcs
          /\ Acquire("res")
          /\ i' = 0
          /\ pc' = "crtc_loop"
          /\ UNCHANGED <<errno, diag>>
       \/ /\ errno' \in Errnos
          /\ Say("Unable to get mode resources.")
          /\ pc' = "out_close_fd"
          /\ UNCHANGED <<count_crtcs, i, acq>>
    /\ UNCHANGED <<envVars, scanVars, crtcs, fb_id, queried, fb, src, rel,
                   pngVars, euid, ret, err, retval, pxVars>>

\* The loop test and one body of for (i = 0; i < res->count_crtcs; i++).
\* drmModeGetCrtc finds the CRTC unbound (buffer_id 0), bound, or returns
\* NULL.  crtc is dereferenced unchecked: on NULL the read of buffer_id,
\* at address 4, faults.
CrtcLoop_noBreak ==
    /\ pc = "crtc_loop"
    /\ \/ /\ i >= count_crtcs
          /\ pc' = "check_crtc"
          /\ UNCHANGED <<i, fb_id, queried, crtcs>>
       \/ /\ i < count_crtcs
          /\ queried' = Append(queried, i)
          /\ \E id \in {0, FbIdBase + i} :
                /\ crtcs' = Append(crtcs, id)
                /\ fb_id' = id
                /\ IF id # 0 /\ i + 1 = count_crtcs
                   THEN pc' = "check_crtc" /\ UNCHANGED i
                   ELSE i' = i + 1 /\ UNCHANGED pc
       \/ /\ i < count_crtcs
          /\ queried' = Append(queried, i)
          /\ crtcs' = Append(crtcs, CrtcGone)
          /\ pc' = "crashed"
          /\ UNCHANGED <<i, fb_id>>
    /\ UNCHANGED <<envVars, scanVars, errno, count_crtcs, fb, src, acq, rel,
                   pngVars, euid, ret, err, retval, diag, pxVars>>

CrtcLoop ==
    /\ pc = "crtc_loop"
    /\ \/ /\ i >= count_crtcs
          /\ pc' = "check_crtc"
          /\ UNCHANGED <<i, fb_id, queried, crtcs>>
       \/ /\ i < count_crtcs
          /\ queried' = Append(queried, i)
          /\ \E id \in {0, FbIdBase + i} :
                /\ crtcs' = Append(crtcs, id)
                /\ fb_id' = id
                /\ IF id # 0
                   THEN pc' = "check_crtc" /\ UNCHANGED i          \* break
                   ELSE i' = i + 1 /\ UNCHANGED pc
       \/ /\ i < count_crtcs
          /\ queried' = Append(queried, i)
          /\ crtcs' = Append(crtcs, CrtcGone)
          /\ pc' = "crashed"
          /\ UNCHANGED <<i, fb_id>>
    /\ UNCHANGED <<envVars, scanVars, errno, count_crtcs, fb, src, acq, rel,
                   pngVars, euid, ret, err, retval, diag, pxVars>>

\* if (i == res->count_crtcs)
CheckCrtc_missing ==
    /\ pc = "check_crtc"
    /\ pc' = "get_fb"
    /\ UNCHANGED <<envVars, scanVars, errno, crtcVars, fb, src, acq, rel,
                   pngVars, euid, ret, err, retval, diag, pxVars>>

CheckCrtc_offByOne ==
    /\ pc = "check_crtc"
    /\ IF i > count_crtcs
       THEN /\ Say("No CRTC found")
            /\ pc' = "out_free_resources"
       ELSE /\ pc' = "get_fb"
            /\ UNCHANGED diag
    /\ UNCHANGED <<envVars, scanVars, errno, crtcVars, fb, src, acq, rel,
                   pngVars, euid, ret, err, retval, pxVars>>

CheckCrtc ==
    /\ pc = "check_crtc"
    /\ IF i = count_crtcs
       THEN /\ Say("No CRTC found")
            /\ pc' = "out_free_resources"
       ELSE /\ pc' = "get_fb"
            /\ UNCHANGED diag
    /\ UNCHANGED <<envVars, scanVars, errno, crtcVars, fb, src, acq, rel,
                   pngVars, euid, ret, err, retval, pxVars>>

GetFB ==
    /\ pc = "get_fb"
    /\ \/ \E w \in 1..MaxDim, h \in 1..MaxDim, b \in BppVals, pat \in Patterns :
             /\ fb' = [ok |-> TRUE, width |-> w, height |-> h, bpp |-> b,
                       handle |-> 100 + fb_id]
             /\ src' = SourcePixels(w, h, b, pat)
             /\ Acquire("fb")
             /\ pc' = "export"
             /\ UNCHANGED <<errno, diag>>
       \/ /\ errno' \in Errnos
          /\ Say("Failed to get framebuffer")
          /\ pc' = "out_free_resources"
          /\ UNCHANGED <<fb, src, acq>>
    /\ UNCHANGED <<envVars, scanVars, crtcVars, rel, pngVars, euid, ret, err,
                   retval, pxVars>>

(***************************************************************************)
(* main(): buffer export (kmsgrab.c:225-230).                              *)
(***************************************************************************)
PrimeHandleToFD_noGoto ==
    /\ pc = "export"
    /\ \/ /\ Acquire("prime_fd")
          /\ err' = 0
          /\ pc' = "save_png"
          /\ UNCHANGED <<errno, diag>>
       \/ \E e \in Errnos :
             /\ errno' = e
             /\ err' = -e
             /\ Say("Failed to retrieve prime handler")
             /\ pc' = "save_png"
             /\ UNCHANGED acq
    /\ UNCHANGED <<envVars, scanVars, crtcVars, fb, src, rel, pngVars, euid,
                   ret, retval, pxVars>>

PrimeHandleToFD ==
    /\ pc = "export"
    /\ \/ /\ Acquire("prime_fd")
          /\ err' = 0
          /\ pc' = "save_png"
          /\ UNCHANGED <<errno, diag>>
       \/ \E e \in Errnos :
             /\ errno' = e
             /\ err' = -e
             /\ Say("Failed to retrieve prime handler")
             /\ pc' = "out_free_fb"
             /\ UNCHANGED acq
    /\ UNCHANGED <<envVars, scanVars, crtcVars, fb, src, rel, pngVars, euid,
                   ret, retval, pxVars>>

(***************************************************************************)
(* save_png() (kmsgrab.c:66-148).                                          *)
(***************************************************************************)
mainVars == <<envVars, scanVars, crtcVars, fb, src, err, retval, pxVars>>

\* picture = malloc(fb->width * fb->height * 4)
MallocPicture ==
    /\ pc = "save_png"
    /\ \/ /\ picture' = [j \in 1..PictureSize(fb) |-> Uninit]
          /\ Acquire("picture")
          /\ pc' = "sp_mmap"
          /\ UNCHANGED <<errno, ret>>
       \/ /\ errno' = ENOMEM
          /\ ret' = -ENOMEM
          /\ pc' = "sp_return"
          /\ UNCHANGED <<picture, acq>>
    /\ UNCHANGED <<mainVars, rel, decoder, row_pointers, sink, file, openEuid,
                   euid, diag>>

\* buffer = mmap(NULL, (fb->bpp >> 3) * fb->width * fb->height, ...)
MmapBuffer ==
    /\ pc = "sp_mmap"
    /\ \/ /\ Acquire("mapping")
          /\ pc' = "sp_seteuid"
          /\ UNCHANGED <<errno, ret, diag>>
       \/ \E e \in Errnos :
             /\ errno' = e
             /\ ret' = -e
             /\ Say("Unable to mmap prime buffer")
             /\ pc' = "out_free_picture"
             /\ UNCHANGED acq
    /\ UNCHANGED <<mainVars, rel, pngVars, euid>>

\* seteuid(getuid())
DropPrivileges_skipped ==
    /\ pc = "sp_seteuid"
    /\ euid' = euid
    /\ pc' = "sp_fopen"
    /\ UNCHANGED <<mainVars, errno, acq, rel, pngVars, ret, diag>>

DropPrivileges ==
    /\ pc = "sp_seteuid"
    /\ euid' = RUID
    /\ pc' = "sp_fopen"
    /\ UNCHANGED <<mainVars, errno, acq, rel, pngVars, ret, diag>>

\* pngfile = fopen(png_fn, "w+"): creates the file or truncates it.
FopenPng ==
    /\ pc = "sp_fopen"
    /\ openEuid' = euid
    /\ \/ /\ file' = "empty"
          /\ Acquire("pngfile")
          /\ pc' = "sp_create_write"
          /\ UNCHANGED <<errno, ret>>
       \/ \E e \in Errnos :
             /\ errno' = e
             /\ ret' = -e
             /\ pc' = "out_unmap_buffer"
             /\ UNCHANGED <<file, acq>>
    /\ UNCHANGED <<mainVars, rel, picture, decoder, row_pointers, sink, euid,
                   diag>>

\* png_create_write_struct / png_create_info_struct returning NULL:
\* ret = -errno, with errno whatever it holds then (libpng sets none itself;
\* a failed allocation inside it leaves ENOMEM).
PngCreate(here, next, out) ==
    /\ pc = here
    /\ \/ /\ pc' = next
          /\ UNCHANGED <<errno, ret>>
       \/ \E e \in {errno, ENOMEM} :
             /\ errno' = e
             /\ ret' = -e
             /\ pc' = out
    /\ UNCHANGED <<mainVars, acq, rel, pngVars, euid, diag>>

CreateWriteStruct == PngCreate("sp_create_write", "sp_create_info", "out_fclose")

CreateInfoStruct == PngCreate("sp_create_info", "sp_write_info", "out_free_png")

\* png_init_io, png_set_IHDR, png_write_info
WriteInfo ==
    /\ pc = "sp_write_info"
    /\ sink' = [sink EXCEPT !.ihdr = <<fb.width, fb.height>>]
    /\ file' = "header"
    /\ pc' = "sp_convert"
    /\ UNCHANGED <<mainVars, errno, acq, rel, picture, decoder, row_pointers,
                   openEuid, euid, ret, diag>>

\* convert_to_24(fb, picture, buffer).  Reading more bytes than are mapped
\* either faults or yields what follows the mapping.
Convert ==
    /\ pc = "sp_convert"
    /\ \/ /\ picture' = convert_to_24(fb, picture, src)
          /\ decoder' = DecoderFor(fb)
          /\ pc' = "sp_rowptrs"
       \/ /\ BytesRead(fb) > MapLength(fb)
          /\ pc' = "crashed"
          /\ UNCHANGED <<picture, decoder>>
    /\ UNCHANGED <<mainVars, errno, acq, rel, row_pointers, sink, file,
                   openEuid, euid, ret, diag>>

\* row_pointers = malloc(...); row_pointers[i] = picture + i * fb->width * 3
RowPointers_stride4 ==
    /\ pc = "sp_rowptrs"
    /\ \/ /\ row_pointers' = [k \in 1..fb.height |-> RowOffset_stride4(fb, k - 1)]
          /\ Acquire("row_pointers")
          /\ pc' = "sp_write_image"
          /\ UNCHANGED <<errno, ret>>
       \/ /\ errno' = ENOMEM
          /\ ret' = -ENOMEM
          /\ pc' = "out_free_info"
          /\ UNCHANGED <<row_pointers, acq>>
    /\ UNCHANGED <<mainVars, rel, picture, decoder, sink, file, openEuid,
                   euid, diag>>

RowPointers ==
    /\ pc = "sp_rowptrs"
    /\ \/ /\ row_pointers' = [k \in 1..fb.height |-> RowOffset(fb, k - 1)]
          /\ Acquire("row_pointers")
          /\ pc' = "sp_write_image"
          /\ UNCHANGED <<errno, ret>>
       \/ /\ errno' = ENOMEM
          /\ ret' = -ENOMEM
          /\ pc' = "out_free_info"
          /\ UNCHANGED <<row_pointers, acq>>
    /\ UNCHANGED <<mainVars, rel, picture, decoder, sink, file, openEuid,
                   euid, diag>>

\* png_write_image, png_write_end, ret = 0, free(row_pointers).  libpng
\* takes sink.ihdr[2] rows of sink.ihdr[1] * 3 bytes, one per row pointer.
WriteImage ==
    /\ pc = "sp_write_image"
    /\ sink' = [sink EXCEPT
                  !.rows = [k \in 1..sink.ihdr[2] |->
                              SubSeq(picture, row_pointers[k] + 1,
                                     row_pointers[k] + sink.ihdr[1] * 3)],
                  !.ended = TRUE]
    /\ file' = "complete"
    /\ ret' = 0
    /\ Release("row_pointers")
    /\ pc' = "out_free_info"
    /\ UNCHANGED <<mainVars, errno, acq, picture, decoder, row_pointers,
                   openEuid, euid, diag>>

\* The cleanup labels of save_png.
SaveCleanup(here, next) ==
    /\ pc = here
    /\ pc' = next
    /\ UNCHANGED <<mainVars, errno, acq, pngVars, euid, ret, diag>>

out_free_info == SaveCleanup("out_free_info", "out_free_png") /\ UNCHANGED rel

out_free_png == SaveCleanup("out_free_png", "out_fclose") /\ UNCHANGED rel

out_fclose ==
    SaveCleanup("out_fclose", "out_unmap_buffer") /\ Release("pngfile")

out_unmap_buffer_skipped ==
    SaveCleanup("out_unmap_buffer", "out_free_picture") /\ UNCHANGED rel

out_unmap_buffer ==
    SaveCleanup("out_unmap_buffer", "out_free_picture") /\ Release("mapping")

out_free_picture ==
    SaveCleanup("out_free_picture", "sp_return") /\ Release("picture")

(***************************************************************************)
(* main(): after save_png, and the cleanup labels (kmsgrab.c:232-250).     *)
(***************************************************************************)
\* err = save_png(...); if (err < 0) ... else retval = EXIT_SUCCESS
SavePngReturn ==
    /\ pc = "sp_return"
    /\ err' = ret
    /\ IF ret < 0
       THEN Say("Failed to take screenshot") /\ UNCHANGED retval
       ELSE retval' = EXIT_SUCCESS /\ UNCHANGED diag
    /\ pc' = "out_close_prime_fd"
    /\ UNCHANGED <<envVars, scanVars, crtcVars, fb, src, errno, acq, rel,
                   pngVars, euid, ret, pxVars>>

MainCleanup(here, next) ==
    /\ pc = here
    /\ pc' = next
    /\ UNCHANGED <<envVars, card, caps, crtcVars, fb, src, errno, acq,
                   pngVars, euid, ret, err, retval, diag, pxVars>>

out_close_prime_fd ==
    /\ MainCleanup("out_close_prime_fd", "out_free_fb")
    /\ Release("prime_fd")
    /\ UNCHANGED <<fds, drm_fd>>

out_free_fb ==
    /\ MainCleanup("out_free_fb", "out_free_resources")
    /\ Release("fb")
    /\ UNCHANGED <<fds, drm_fd>>

out_free_resources ==
    /\ MainCleanup("out_free_resources", "out_close_fd")
    /\ Release("res")
    /\ UNCHANGED <<fds, drm_fd>>

out_close_fd ==
    /\ MainCleanup("out_close_fd", "out_return")
    /\ fds' = [fds EXCEPT ![drm_fd].open = FALSE]
    /\ UNCHANGED <<rel, drm_fd>>

out_return ==
    /\ MainCleanup("out_return", "done")
    /\ UNCHANGED <<rel, fds, drm_fd>>

Next ==
    \/ Usage \/ ScanCard \/ Reopen
    \/ SetAtomicCap \/ SetUniversalPlanesCap \/ GetResources
    \/ CrtcLoop \/ CheckCrtc \/ GetFB \/ PrimeHandleToFD
    \/ MallocPicture \/ MmapBuffer \/ DropPrivileges \/ FopenPng
    \/ CreateWriteStruct \/ CreateInfoStruct \/ WriteInfo \/ Convert
    \/ RowPointers \/ WriteImage
    \/ out_free_info \/ out_free_png \/ out_fclose \/ out_unmap_buffer
    \/ out_free_picture
    \/ SavePngReturn
    \/ out_close_prime_fd \/ out_free_fb \/ out_free_resources
    \/ out_close_fd \/ out_return

Spec == Init /\ [][Next]_vars

\* The run up to the framebuffer lookup: device scan, client capabilities
\* and output discovery, with the cleanup labels they jump to.  The program
\* is one thread that runs to completion: a step that can be taken is taken.
NextDiscovery ==
    \/ Usage \/ ScanCard \/ Reopen
    \/ SetAtomicCap \/ SetUniversalPlanesCap \/ GetResources
    \/ CrtcLoop \/ CheckCrtc
    \/ out_free_resources \/ out_close_fd \/ out_return

FairDiscovery == Init /\ [][NextDiscovery]_vars /\ WF_vars(NextDiscovery)

(***************************************************************************)
(* The pixel decoders on their own: one call of rgb16_to_24 on every       *)
(* uint16_t, one call of rgb32_to_24 on words built from sample bytes.     *)
(***************************************************************************)
ByteSamples == {\h00, \h11, \h22, \h33, \h80, \hFF}

InitPixel ==
    /\ \/ pc = "px16" /\ px \in 0..65535
       \/ /\ pc = "px32"
          /\ px \in {W32(a * 256 + r, g * 256 + b) :
                       a \in ByteSamples, r \in ByteSamples,
                       g \in ByteSamples, b \in ByteSamples}
    /\ pixel = NoPixel /\ sizes = NoSizes /\ fb = NoFb
    /\ argc = 2 /\ cards = <<>> /\ file = "untouched" /\ euid = RUID
    /\ ProgramStart

Decode(here, there, p) ==
    /\ pc = here
    /\ pixel' = p
    /\ pc' = there
    /\ UNCHANGED <<envVars, scanVars, errno, crtcVars, fb, src, acq, rel,
                   pngVars, euid, ret, err, retval, diag, px, sizes>>

Decode16 == Decode("px16", "px16_done", rgb16_to_24(px))

Decode32 == Decode("px32", "px32_done", rgb32_to_24(px))

NextPixel == Decode16 \/ Decode32

SpecPixel == InitPixel /\ [][NextPixel]_vars

(***************************************************************************)
(* The size arithmetic of save_png and convert_to_24 on its own, for       *)
(* framebuffers of any dimensions (kmsgrab.c:53, 76, 128-129).             *)
(***************************************************************************)
DimSamples == {1, 2, 3, 640, 1920, 4096, 16384, 32768, 65535, 65536}
RowSamples(h) == {0, h \div 2, h - 1}

InitSizes ==
    /\ pc = "sizes"
    /\ fb \in {[ok |-> TRUE, width |-> w, height |-> h, bpp |-> 32,
                handle |-> 0] : w \in DimSamples, h \in DimSamples}
    /\ px = 0 /\ pixel = NoPixel /\ sizes = NoSizes
    /\ argc = 2 /\ cards = <<>> /\ file = "untouched" /\ euid = RUID
    /\ ProgramStart

\* malloc(width * height * 4), len = width * height, and one row pointer.
ComputeSizes ==
    /\ pc = "sizes"
    /\ \E k \in RowSamples(fb.height) :
          sizes' = [alloc  |-> PictureSizeW(fb),
                    len    |-> ConvLenW(fb),
                    row    |-> k,
                    offset |-> RowOffsetW(fb, k)]
    /\ pc' = "sizes_done"
    /\ UNCHANGED <<envVars, scanVars, errno, crtcVars, fb, src, acq, rel,
                   pngVars, euid, ret, err, retval, diag, px, pixel>>

NextSizes == ComputeSizes

SpecSizes == InitSizes /\ [][NextSizes]_vars

(***************************************************************************)
(* Properties.                                                             *)
(***************************************************************************)
Returned == pc = "done"                   \* main() has returned
NoCrtcMsg == "No CRTC found"

\* What the bit recipes give, in plain arithmetic.
Expected16(p) == <<(p \div 2048) * 8, ((p \div 32) % 64) * 4, (p % 32) * 8>>
Expected32(p) == <<p.hi % 256, p.lo \div 256, p.lo % 256>>
Expected(bpp, p) == IF bpp = 16 THEN Expected16(p) ELSE Expected32(p)
Triple(p) == <<p.r, p.g, p.b>>

\* C1: the prime descriptor, the mapping, the resource set and the
\* framebuffer are each acquired at most once, never released more often
\* than acquired, and when main returns (after a failure of any step of
\* save_png, of the framebuffer lookup or of the export, or after success)
\* each one that was acquired has been released exactly once.
C1_ReleasedExactlyOnce ==
    \A r \in {"prime_fd", "mapping", "res", "fb"} :
        /\ acq[r] <= 1
        /\ rel[r] <= acq[r]
        /\ Returned => rel[r] = acq[r]

C1_Witness ==
    /\ Returned
    /\ ret < 0
    /\ \A r \in {"prime_fd", "mapping", "res", "fb"} : acq[r] = 1 /\ rel[r] = 1

\* C2: a framebuffer whose bpp is neither 16 nor 32 is never run through a
\* decoder and no image of it reaches the sink.
C2_UnsupportedBppRejected ==
    (fb.ok /\ fb.bpp \notin {16, 32}) =>
        /\ decoder = "none"
        /\ sink.rows = <<>>
        /\ ~sink.ended

\* C3: main returns EXIT_SUCCESS exactly when the whole pipeline ran, up to
\* and including the end of the image write.
C3_SuccessIffCompleted ==
    Returned => (retval = EXIT_SUCCESS <=> sink.ended)

\* C4: when main returns, the file at the output path is untouched or
\* complete, never empty (truncated) or header-only.
C4_NoPartialFile ==
    Returned => file \in {"untouched", "complete"}

\* C5 as claimed: the output file is opened, the header written and rows
\* written only once the image has been converted.
C5_SinkOnlyAfterConversion ==
    (acq["pngfile"] > 0 \/ sink.ihdr # <<>> \/ sink.rows # <<>>) =>
        decoder # "none"

\* C5, as the code has it: rows reach the sink only after every pixel has
\* been converted, while the open of the file and the header write come
\* before the conversion.
C5_RowsOnlyAfterConversion ==
    /\ sink.rows # <<>> =>
          /\ decoder # "none"
          /\ \A j \in 1..(3 * fb.width * fb.height) : picture[j] # Uninit
    /\ decoder # "none" => (acq["pngfile"] = 1 /\ sink.ihdr # <<>>)

C5_Witness ==
    /\ sink.rows # <<>>
    /\ decoder = "rgb16_to_24"
    /\ fb.width * fb.height > 1

C7_Rgb16Recipe ==
    pc = "px16_done" =>
        /\ Triple(pixel) = Expected16(px)
        /\ \A c \in {pixel.r, pixel.g, pixel.b} : c \in 0..255

C7_Witness ==
    /\ pc = "px16_done"
    /\ px = 65535
    /\ pixel = [r |-> 248, g |-> 252, b |-> 248]

\* C8: rgb32_to_24(px) is the three low bytes of px, red from bits 16-23,
\* and is the same for px with its top 8 bits cleared.
C8_Rgb32Recipe ==
    pc = "px32_done" =>
        /\ Triple(pixel) = Expected32(px)
        /\ pixel = rgb32_to_24(W32(px.hi % 256, px.lo))

C8_Witness ==
    /\ pc = "px32_done"
    /\ px = W32(\hFF11, \h2233)
    /\ pixel = [r |-> 17, g |-> 34, b |-> 51]

\* C9: for bpp 16 or 32, the conversion fills exactly the first
\* width*height*3 bytes of the picture, pixel k from source pixel k alone
\* as R,G,B; the sink gets the dimensions (width, height), row k at byte
\* offset k*width*3, and so the pixels in row-major order.
C9_RowMajorImage ==
    (fb.ok /\ fb.bpp \in {16, 32}) =>
        LET w == fb.width
            h == fb.height
        IN  /\ decoder # "none" =>
                  /\ Len(picture) >= 3 * w * h
                  /\ \A k \in 1..(w * h) :
                        SubSeq(picture, 3 * k - 2, 3 * k)
                           = Expected(fb.bpp, src[k])
                  /\ \A j \in (3 * w * h + 1)..Len(picture) :
                        picture[j] = Uninit
            /\ sink.ihdr # <<>> => sink.ihdr = <<w, h>>
            /\ row_pointers # <<>> =>
                  /\ Len(row_pointers) = h
                  /\ \A k \in 1..h : row_pointers[k] = (k - 1) * w * 3
            /\ sink.rows # <<>> =>
                  /\ Len(sink.rows) = h
                  /\ \A y \in 1..h :
                        /\ Len(sink.rows[y]) = 3 * w
                        /\ \A x \in 1..w :
                              SubSeq(sink.rows[y], 3 * x - 2, 3 * x)
                                 = Expected(fb.bpp, src[(y - 1) * w + x])

C9_Witness ==
    /\ fb.bpp = 32
    /\ src = <<W32(0, \h00FF), W32(0, \hFF00), W32(\h00FF, 0),
               W32(\h00FF, \hFFFF)>>
    /\ sink.ihdr = <<2, 2>>
    /\ sink.rows = << <<0, 0, 255, 0, 255, 0>>, <<255, 0, 0, 255, 255, 255>> >>

\* C10: when the resource set was obtained and every CRTC has buffer_id 0
\* (also when there is no CRTC), no framebuffer is looked up or exported,
\* the sink is never touched, and main prints "No CRTC found" and returns
\* EXIT_FAILURE.
AllCrtcsUnbound ==
    /\ acq["res"] = 1
    /\ Len(crtcs) = count_crtcs
    /\ \A k \in 1..count_crtcs : crtcs[k] = 0

C10_NoActiveOutput ==
    AllCrtcsUnbound =>
        /\ pc \notin {"get_fb", "export", "save_png"}
        /\ acq["fb"] = 0 /\ acq["prime_fd"] = 0
        /\ sink = NoSink /\ file = "untouched"
        /\ Returned => (retval = EXIT_FAILURE /\ diag = <<NoCrtcMsg>>)

C10_Witness ==
    /\ Returned
    /\ AllCrtcsUnbound
    /\ count_crtcs = 2
    /\ diag = <<NoCrtcMsg>>

\* C11: the CRTCs are queried in index order 0, 1, 2, ...; every CRTC
\* queried before the last one was passed over (its buffer_id read as 0);
\* the framebuffer looked up is the value read from the last CRTC queried,
\* which is non-zero, and no CRTC is queried after it.
FbMsg == "Failed to get framebuffer"
PrimeMsg == "Failed to retrieve prime handler"
Resolving == pc = "get_fb" \/ fb.ok \/ (FbMsg \in {diag[k] : k \in 1..Len(diag)})

C11_FirstBoundCrtc ==
    /\ queried = [k \in 1..Len(queried) |-> k - 1]
    /\ Len(crtcs) = Len(queried)
    /\ Len(queried) <= count_crtcs
    /\ \A k \in 1..(Len(crtcs) - 1) : crtcs[k] = 0
    /\ Resolving =>
          /\ Len(queried) = i + 1
          /\ fb_id # 0
          /\ crtcs[i + 1] = fb_id
          /\ fb.ok => fb.handle = 100 + fb_id

C11_Witness ==
    /\ fb.ok
    /\ count_crtcs = 2
    /\ crtcs = <<0, FbIdBase + 1>>
    /\ fb_id = FbIdBase + 1

\* C12: when a query of Output Discovery returns no result, the run does
\* not fault: main prints a query-failure message other than
\* "No CRTC found", runs its cleanup and returns EXIT_FAILURE.
ResMsg == "Unable to get mode resources."
CrtcQueryFailed == \E k \in 1..Len(crtcs) : crtcs[k] = CrtcGone

C12_QueryFailureReported ==
    /\ pc # "crashed"
    /\ (Returned /\ CrtcQueryFailed) =>
          /\ retval = EXIT_FAILURE
          /\ diag # <<>> /\ NoCrtcMsg \notin {diag[k] : k \in 1..Len(diag)}
          /\ rel["res"] = 1
    /\ (Returned /\ ResMsg \in {diag[k] : k \in 1..Len(diag)}) =>
          /\ retval = EXIT_FAILURE
          /\ diag = <<ResMsg>>
          /\ acq["res"] = 0

\* C13: when the framebuffer lookup or the export fails (the identifier or
\* handle went stale), the failure is printed, the sink is never touched,
\* the run does not fault, and main returns EXIT_FAILURE with the resource
\* set and the framebuffer released and no prime descriptor or mapping held.
StaleReported ==
    \E k \in 1..Len(diag) : diag[k] \in {FbMsg, PrimeMsg}

C13_StaleBufferSurfaced ==
    StaleReported =>
        /\ Len(diag) = 1
        /\ sink = NoSink /\ file = "untouched" /\ openEuid = Unassigned
        /\ acq["prime_fd"] = 0 /\ acq["mapping"] = 0 /\ acq["picture"] = 0
        /\ pc \in {"out_free_fb", "out_free_resources", "out_close_fd",
                   "out_return", "done"}
        /\ retval = EXIT_FAILURE
        /\ Returned => (rel["res"] = 1 /\ rel["fb"] = acq["fb"])

C13_Witness ==
    /\ Returned
    /\ diag = <<PrimeMsg>>
    /\ acq["fb"] = 1 /\ rel["fb"] = 1
    /\ retval = EXIT_FAILURE

\* C14: once the device is located the process holds exactly one open
\* device descriptor, the one in drm_fd, and when main returns every
\* descriptor it opened has been closed.
OpenFds == {k \in 1..Len(fds) : fds[k].open}
Located ==
    /\ cards # <<>> /\ cards[Len(cards)] = "capable"
    /\ pc # "reopen" /\ drm_fd # 0

C14_OneDeviceHandle ==
    /\ (Located /\ pc \notin {"out_return", "done"}) => OpenFds = {drm_fd}
    /\ Returned => OpenFds = {}

\* C15: the descriptor the later stages use was opened on the node with the
\* lowest index that opened and has dumb buffers: every node below it was
\* opened, found without the capability and closed again.
C15_FirstCapableDevice ==
    Located =>
        /\ card = Len(cards) - 1
        /\ fds[drm_fd].card = card
        /\ pc \notin {"out_return", "done"} => fds[drm_fd].open
        /\ \A c \in 0..(card - 1) :
              /\ cards[c + 1] = "incapable"
              /\ \E k \in 1..Len(fds) : fds[k].card = c
              /\ \A k \in 1..Len(fds) : fds[k].card = c => ~fds[k].open

C15_Witness ==
    /\ Located
    /\ pc = "get_resources"
    /\ cards = <<"incapable", "capable">>
    /\ fds[drm_fd] = [card |-> 1, open |-> TRUE]

\* C16: the device scan ends.  Each iteration that stays in the loop has
\* closed an incapable node and moved to the next index; the first open()
\* that fails ends the scan, nothing is opened after it, and main prints
\* the failure and returns EXIT_FAILURE; and every run leaves the scan.
OpenMsg == "Could not open KMS/DRM device."
ScanStopped == cards # <<>> /\ cards[Len(cards)] = "absent"

ScanStopsAtFailure ==
    /\ \A k \in 1..(Len(cards) - 1) : cards[k] = "incapable"
    /\ pc = "scan" => (card = Len(cards) /\ card <= MaxCards)
    /\ ScanStopped =>
          /\ pc \in {"out_return", "done"}
          /\ card = Len(cards) - 1
          /\ Len(fds) = card /\ OpenFds = {}
          /\ diag = <<OpenMsg>>
          /\ retval = EXIT_FAILURE

C16_ScanTerminates ==
    /\ []ScanStopsAtFailure
    /\ <>(pc \notin {"main", "scan"})
    /\ [](ScanStopped => <>Returned)

C16_Witness ==
    /\ Returned
    /\ cards = <<"incapable", "absent">>
    /\ diag = <<OpenMsg>>
    /\ retval = EXIT_FAILURE

(***************************************************************************)
(* C17.  The mode resources are queried only when both client capabilities *)
(* (atomic, universal planes) have been set successfully on the device     *)
(* descriptor; when setting either one fails the resources are never       *)
(* queried and the run ends in failure.                                    *)
(***************************************************************************)
ResourcesQueried ==
    \/ pc = "get_resources"
    \/ acq["res"] > 0
    \/ ResMsg \in {diag[k] : k \in 1..Len(diag)}

CapFailed == \E k \in 1..Len(diag) : diag[k] \in {AtomicMsg, PlanesMsg}

C17_ResourcesAfterCaps ==
    /\ caps \in {{}, {"DRM_CLIENT_CAP_ATOMIC"}, BothCaps}
    /\ ResourcesQueried => caps = BothCaps
    /\ caps # {} => fds[drm_fd].card = card
    /\ CapFailed =>
          /\ ~ResourcesQueried
          /\ caps # BothCaps
          /\ Len(diag) = 1
          /\ pc \in {"out_close_fd", "out_return", "done"}
          /\ retval = EXIT_FAILURE

C17_Witness ==
    /\ Returned
    /\ diag = <<PlanesMsg>>
    /\ caps = {"DRM_CLIENT_CAP_ATOMIC"}
    /\ acq["res"] = 0
    /\ retval = EXIT_FAILURE

(***************************************************************************)
(* C18.  For every framebuffer that reaches convert_to_24, the bytes the   *)
(* conversion reads (source pixel size times width*height) do not exceed   *)
(* the length passed to mmap, (bpp/8)*width*height, and the conversion     *)
(* does not fault.                                                         *)
(***************************************************************************)
C18_ReadsWithinMapping ==
    /\ (pc = "sp_convert" \/ decoder # "none") =>
          BytesRead(fb) <= MapLength(fb)
    /\ ~(pc = "crashed" /\ fb.ok)

LookupPerformed ==
    \/ pc = "get_fb"
    \/ acq["fb"] > 0
    \/ FbMsg \in {diag[k] : k \in 1..Len(diag)}

C20_LookupIdAssigned ==
    /\ LookupPerformed =>
          /\ fb_id \notin {Unassigned, 0}
          /\ count_crtcs > 0
          /\ \E k \in 1..Len(crtcs) : crtcs[k] = fb_id /\ queried[k] < count_crtcs
    /\ (fb_id = Unassigned \/ count_crtcs = 0) => ~LookupPerformed
    /\ [fb EXCEPT !.handle = 0] # NoFb => LookupPerformed

C20_Witness ==
    /\ pc = "get_fb"
    /\ count_crtcs = 1
    /\ crtcs = <<FbIdBase>>
    /\ fb_id = FbIdBase

====
